---- MODULE Spec2Model ----
(***************************************************************************)
(* Model of the `repo` command line helper (src/src/main.rs): the URI      *)
(* parser parse_uri, the root resolution repos_dir / projects_dir, and the *)
(* clone pipeline do_clone with its git and ln subprocesses and the two    *)
(* detached threads that drain the git subprocess's pipes.                 *)
(*                                                                         *)
(* Strings are sequences of one-character strings; a path is the sequence  *)
(* of its components below "/", each component a string.                   *)
(*                                                                         *)
(* Specifications: Spec (invocations one after another), SpecDrain (one    *)
(* invocation whose git child can fill its pipes), SpecConc (two           *)
(* invocations at once), SpecTwin (two runs side by side, with and without *)
(* -l), SpecParse (parse_uri alone) and SpecRoot (the roots alone).        *)
(***************************************************************************)
EXTENDS Integers, Sequences, FiniteSets, TLC

VARIABLES
    home,       \* what dirs::home_dir() yields: "utf8", "nonutf8" or "none"
    fs,         \* the filesystem: the set of paths that exist
    inv,        \* number of `repo clone` invocations started so far
    cloned,     \* history: URIs whose git clone succeeded in an earlier invocation
    pc,         \* per process: position of the control thread in main/do_clone
    args,       \* per process: CloneArgs {uri, link}
    cwd,        \* per process: its current working directory
    result,     \* per process: what do_clone returned
    events,     \* per process: trace of the lines printed and the children spawned
    git,        \* per process: the `git clone` child
    pipe,       \* per process: the child's stdout and stderr pipes
    thr,        \* per process: the two drain threads
    ln,         \* per process: the `ln -s` child
    stdout,     \* per process: its standard output handle: the lock and the line buffer
    line,       \* per process: the line each drain thread has read and not yet printed
    twin,       \* paired-run harness: whose turn it is, and the filesystem before and after
    uri_in,     \* parser harness: the input string
    parsed,     \* parser harness: whether parse_uri was called, and its result
    calls       \* root-resolution harness: the calls made so far

vars == <<home, fs, inv, cloned, pc, args, cwd, result, events, git, pipe, thr,
          ln, stdout, line, twin, uri_in, parsed, calls>>

---------------------------------------------------------------------------
(* Bounds of the model.                                                    *)

\* longest free-form body of a parser input (after its prefix)
MaxBody == 6
\* most lines the git child writes to each of its two streams
MaxLines == 1
\* lines a pipe holds before the writer blocks
PipeCap == 1
\* most lines the git child writes to a stream where the pipes are the matter:
\* more than a pipe holds
MaxBurst == 2
\* most invocations of the command in one behaviour
MaxInvocations == 2
\* most calls of repos_dir / projects_dir in the root-resolution harness
MaxCalls == 3

---------------------------------------------------------------------------
(* Strings.                                                                *)

\* "https://", the 8-character prefix tested at line 135
Https == <<"h", "t", "t", "p", "s", ":", "/", "/">>
\* "git@", the 4-character prefix tested at line 158
GitAt == <<"g", "i", "t", "@">>
DotGit == <<".", "g", "i", "t">>

\* str::starts_with
starts_with(s, pre) ==
    /\ Len(s) >= Len(pre)
    /\ SubSeq(s, 1, Len(pre)) = pre

\* the slice &s[n..] (n counts the characters dropped)
SliceFrom(s, n) == SubSeq(s, n + 1, Len(s))

\* the slice &s[..n]
SliceTo(s, n) == SubSeq(s, 1, n)

\* the scan of str::find from the i-th character on
RECURSIVE FindFrom(_, _, _)
FindFrom(s, ch, i) ==
    IF i > Len(s) THEN -1
    ELSE IF s[i] = ch THEN i - 1
    ELSE FindFrom(s, ch, i + 1)

\* str::find(ch): the 0-based index of the first ch, or -1 for None
find(s, ch) == FindFrom(s, ch, 1)

\* a filter that drops the dots and keeps the slashes
RepoFilterDotsOnly(s) ==
    LET NotDot(ch) == ch # "." IN SelectSeq(s, NotDot)

\* the loop of lines 150-155: push every character that is neither '/' nor '.'
RECURSIVE RepoFilter(_)
RepoFilter(s) ==
    IF s = <<>> THEN <<>>
    ELSE IF Head(s) # "/" /\ Head(s) # "." THEN <<Head(s)>> \o RepoFilter(Tail(s))
    ELSE RepoFilter(Tail(s))

\* the SSH form's loop without its `break`: the HTTPS form's filter
RepoTruncateNoBreak(s) == RepoFilter(s)

\* the loop of lines 173-180: push characters until the first '/' or '.'
RECURSIVE RepoTruncate(_)
RepoTruncate(s) ==
    IF s = <<>> THEN <<>>
    ELSE IF Head(s) # "/" /\ Head(s) # "." THEN <<Head(s)>> \o RepoTruncate(Tail(s))
    ELSE <<>>

ParseOk(domain, user, repo) ==
    [ok |-> TRUE, domain |-> domain, user |-> user, repo |-> repo, uri |-> <<>>]
\* Err(anyhow!("Could not parse uri: {uri:?}"))
ParseErr(uri) ==
    [ok |-> FALSE, domain |-> <<>>, user |-> <<>>, repo |-> <<>>, uri |-> uri]

\* the HTTPS form with the user slice one character too long
parse_https_user_off_by_one(uri) ==
    LET uri_no_schema == SliceFrom(uri, 8)
        slash_idx == find(uri_no_schema, "/")
    IN  IF slash_idx = -1 THEN ParseErr(uri)
        ELSE LET domain == SliceTo(uri_no_schema, slash_idx)
                 rest == SliceFrom(uri_no_schema, slash_idx + 1)
                 slash_idx2 == find(rest, "/")
             IN  IF slash_idx2 = -1 THEN ParseErr(uri)
                 ELSE ParseOk(domain, SliceTo(rest, slash_idx2 + 1),
                              RepoFilter(SliceFrom(rest, slash_idx2 + 1)))

\* the HTTPS form cutting its repo at the first '/' or '.', as the SSH form does
parse_https_truncating(uri) ==
    LET uri_no_schema == SliceFrom(uri, 8)
        slash_idx == find(uri_no_schema, "/")
    IN  IF slash_idx = -1 THEN ParseErr(uri)
        ELSE LET domain == SliceTo(uri_no_schema, slash_idx)
                 rest == SliceFrom(uri_no_schema, slash_idx + 1)
                 slash_idx2 == find(rest, "/")
             IN  IF slash_idx2 = -1 THEN ParseErr(uri)
                 ELSE ParseOk(domain, SliceTo(rest, slash_idx2),
                              RepoTruncate(SliceFrom(rest, slash_idx2 + 1)))

\* lines 135-157
parse_https(uri) ==
    LET uri_no_schema == SliceFrom(uri, 8)
        slash_idx == find(uri_no_schema, "/")
    IN  IF slash_idx = -1 THEN ParseErr(uri)
        ELSE LET domain == SliceTo(uri_no_schema, slash_idx)
                 rest == SliceFrom(uri_no_schema, slash_idx + 1)
                 slash_idx2 == find(rest, "/")
             IN  IF slash_idx2 = -1 THEN ParseErr(uri)
                 ELSE ParseOk(domain, SliceTo(rest, slash_idx2),
                              RepoFilter(SliceFrom(rest, slash_idx2 + 1)))

\* the SSH form taking an input without a '/' after its ':' for a user with
\* an empty repo
parse_git_slash_optional(uri) ==
    LET uri_no_schema == SliceFrom(uri, 4)
        slash_idx == find(uri_no_schema, ":")
    IN  IF slash_idx = -1 THEN ParseErr(uri)
        ELSE LET domain == SliceTo(uri_no_schema, slash_idx)
                 rest == SliceFrom(uri_no_schema, slash_idx + 1)
                 slash_idx2 == find(rest, "/")
             IN  IF slash_idx2 = -1 THEN ParseOk(domain, rest, <<>>)
                 ELSE ParseOk(domain, SliceTo(rest, slash_idx2),
                              RepoTruncate(SliceFrom(rest, slash_idx2 + 1)))

\* lines 158-182
parse_git(uri) ==
    LET uri_no_schema == SliceFrom(uri, 4)
        slash_idx == find(uri_no_schema, ":")
    IN  IF slash_idx = -1 THEN ParseErr(uri)
        ELSE LET domain == SliceTo(uri_no_schema, slash_idx)
                 rest == SliceFrom(uri_no_schema, slash_idx + 1)
                 slash_idx2 == find(rest, "/")
             IN  IF slash_idx2 = -1 THEN ParseErr(uri)
                 ELSE ParseOk(domain, SliceTo(rest, slash_idx2),
                              RepoTruncate(SliceFrom(rest, slash_idx2 + 1)))

\* lines 134-186
parse_uri(uri) ==
    IF starts_with(uri, Https) THEN parse_https(uri)
    ELSE IF starts_with(uri, GitAt) THEN parse_git(uri)
    ELSE ParseErr(uri)

---------------------------------------------------------------------------
(* Paths and the filesystem.                                               *)

\* the user's home directory, as dirs::home_dir() reports it
HomePath == << <<"h", "o", "m", "e">> >>
\* "repos" (line 116) and "projects" (line 126)
ReposName == <<"r", "e", "p", "o", "s">>
ProjectsName == <<"p", "r", "o", "j", "e", "c", "t", "s">>

\* the '/'-separated pieces of a string
RECURSIVE Components(_)
Components(s) ==
    LET i == find(s, "/")
    IN  IF i = -1 THEN <<s>>
        ELSE <<SliceTo(s, i)>> \o Components(SliceFrom(s, i + 1))

\* one component appended the way the OS resolves it: "" and "." name the
\* directory itself, ".." its parent
PushComponent(path, comp) ==
    IF comp = <<>> \/ comp = <<".">> THEN path
    ELSE IF comp = <<".", ".">>
         THEN IF path = <<>> THEN path ELSE SubSeq(path, 1, Len(path) - 1)
    ELSE Append(path, comp)

RECURSIVE PushAll(_, _)
PushAll(path, comps) ==
    IF comps = <<>> THEN path
    ELSE PushAll(PushComponent(path, Head(comps)), Tail(comps))

\* PathBuf::join: an absolute argument replaces the path, a relative one is
\* appended component by component
Join(path, s) ==
    PushAll(IF s # <<>> /\ s[1] = "/" THEN <<>> ELSE path, Components(s))

\* std::fs::metadata(path).is_ok()
metadata_is_ok(fsv, path) == path = <<>> \/ path \in fsv

\* std::fs::create_dir_all(path) that gets as far as `made` components: it
\* succeeds iff it gets to the end of the path
create_dir_all(fsv, path, made) ==
    [ok |-> made = Len(path),
     fs |-> fsv \cup {SubSeq(path, 1, k) : k \in 1..made}]

\* the entries of the filesystem at or below a path
Under(fsv, path) ==
    {q \in fsv : Len(q) >= Len(path) /\ SubSeq(q, 1, Len(path)) = path}

RootOk(path, fsv) == [ok |-> TRUE, err |-> "none", path |-> path, fs |-> fsv]
RootErr(kind, fsv) == [ok |-> FALSE, err |-> kind, path |-> <<>>, fs |-> fsv]

\* repos_dir without its metadata test, creating with create_dir, which fails
\* on a directory that exists
repos_dir_unguarded(homev, fsv, made) ==
    IF homev = "none" THEN RootErr("HomeDirectoryUnavailable", fsv)
    ELSE LET repo_dir == Join(HomePath, ReposName)
             c == create_dir_all(fsv, repo_dir, made)
         IN  IF ~metadata_is_ok(fsv, repo_dir) /\ c.ok THEN RootOk(repo_dir, c.fs)
             ELSE RootErr("DirectoryCreationFailed", fsv)

\* lines 114-122
repos_dir(homev, fsv, made) ==
    IF homev = "none" THEN RootErr("HomeDirectoryUnavailable", fsv)
    ELSE LET repo_dir == Join(HomePath, ReposName)
         IN  IF ~metadata_is_ok(fsv, repo_dir)
             THEN LET c == create_dir_all(fsv, repo_dir, made)
                  IN  IF c.ok THEN RootOk(repo_dir, c.fs)
                      ELSE RootErr("DirectoryCreationFailed", c.fs)
             ELSE RootOk(repo_dir, fsv)

\* lines 124-132
projects_dir(homev, fsv, made) ==
    IF homev = "none" THEN RootErr("HomeDirectoryUnavailable", fsv)
    ELSE LET dir == Join(HomePath, ProjectsName)
         IN  IF ~metadata_is_ok(fsv, dir)
             THEN LET c == create_dir_all(fsv, dir, made)
                  IN  IF c.ok THEN RootOk(dir, c.fs)
                      ELSE RootErr("DirectoryCreationFailed", c.fs)
             ELSE RootOk(dir, fsv)

---------------------------------------------------------------------------
(* The clone pipeline: main and do_clone, lines 23-112.                    *)

\* the processes (invocations of the command) that can be alive at once
Procs == {"p1", "p2"}
\* the two piped streams of the git child
Streams == {"out", "err"}
\* exit statuses of a child: 0 is success, a negative number a signal
Statuses == {0, 1, -9}

\* the URIs the command is invoked with
UriABC == Https \o <<"a", "/", "b", "/", "c">>
UriGitABC == GitAt \o <<"a", ":", "b", "/", "c">> \o DotGit
UriBad == <<"a", "/", "b">>
CloneUris == {UriABC, UriGitABC, UriBad}

\* the filesystems a behaviour can start from: a fresh home directory, one
\* with either root, and one that holds the clone of UriABC already
InitFs ==
    { {HomePath},
      {HomePath, Join(HomePath, ReposName)},
      {HomePath, Join(HomePath, ReposName), Join(HomePath, ProjectsName)},
      {HomePath, Join(HomePath, ReposName),
       Join(HomePath, ReposName) \o << <<"a">> >>,
       Join(HomePath, ReposName) \o << <<"a">>, <<"b">> >>,
       Join(HomePath, ReposName) \o << <<"a">>, <<"b">>, <<"c">> >>,
       Join(HomePath, ReposName) \o << <<"a">>, <<"b">>, <<"c">>, <<".", "g", "i", "t">> >>} }

NoResult == [kind |-> "none", status |-> 0]
Ok == [kind |-> "Ok", status |-> 0]
Err(kind) == [kind |-> kind, status |-> 0]
ErrStatus(kind, status) == [kind |-> kind, status |-> status]

NoChild == [state |-> "none", cwd |-> <<>>, words |-> <<>>, left |-> [s \in Streams |-> 0],
            made |-> FALSE, status |-> 0]
NoArgs == [uri |-> <<>>, link |-> FALSE]
\* the standard output handle at rest: unlocked, nothing buffered
NoPrint == [lock |-> "none", buf |-> <<>>]
\* the paired-run harness at rest
NoTwin == [turn |-> "lead", before |-> {}, after |-> {}]

\* an entry of the trace
Ev(t, who, paths, words, n, status) ==
    [t |-> t, who |-> who, paths |-> paths, words |-> words, n |-> n, status |-> status]
PrintPath(path) == Ev("print", "main", <<path>>, <<>>, 0, 0)
PrintLine(stream, n) == Ev("print", stream, <<>>, <<>>, n, 0)
SpawnEv(prog, paths, words) == Ev("spawn", prog, paths, words, 0, 0)

\* parse_uri of every URI an invocation is given, and of the empty string of
\* a process not started
Parsed == [u \in CloneUris \cup {<<>>} |-> parse_uri(u)]
\* line 34: (domain, user, repo)
Loc(p) == Parsed[args[p].uri]
\* line 36
domain_user_dir(p) ==
    LET l == Loc(p)
    IN  Join(Join(Join(HomePath, ReposName), l.domain), l.user)
\* the target joined from the user instead of the repo
target_dir_from_user(p) == Join(domain_user_dir(p), Loc(p).user)

\* line 42
target_dir(p) == Join(domain_user_dir(p), Loc(p).repo)
\* line 95
link(p) == Join(Join(HomePath, ProjectsName), Loc(p).repo)

\* no invocation has been started
Idle ==
    /\ inv = 0
    /\ cloned = {}
    /\ pc = [p \in Procs |-> "idle"]
    /\ args = [p \in Procs |-> NoArgs]
    /\ cwd = [p \in Procs |-> HomePath]
    /\ result = [p \in Procs |-> NoResult]
    /\ events = [p \in Procs |-> <<>>]
    /\ git = [p \in Procs |-> NoChild]
    /\ pipe = [p \in Procs |-> [s \in Streams |-> <<>>]]
    /\ thr = [p \in Procs |-> [s \in Streams |-> "none"]]
    /\ ln = [p \in Procs |-> NoChild]
    /\ stdout = [p \in Procs |-> NoPrint]
    /\ line = [p \in Procs |-> [s \in Streams |-> 0]]
    /\ twin = NoTwin

NotParsed == [called |-> FALSE, r |-> ParseErr(<<>>)]

Init ==
    /\ home \in {"utf8", "nonutf8", "none"}
    /\ fs \in InitFs
    /\ Idle
    /\ uri_in = <<>>
    /\ parsed = NotParsed
    /\ calls = <<>>

harness == <<uri_in, parsed, calls>>
children == <<git, pipe, thr, ln>>
output == <<stdout, line>>

\* do_clone returns r: an early `return Err`, a `?`, or the final Ok(())
Return(p, r) ==
    /\ pc' = [pc EXCEPT ![p] = "returned"]
    /\ result' = [result EXCEPT ![p] = r]

Goto(p, label) ==
    /\ pc' = [pc EXCEPT ![p] = label]
    /\ UNCHANGED result

\* println! by the control thread: under the lock of standard output the
\* line goes out whole
Println(p, e) ==
    /\ stdout[p].lock = "none"
    /\ events' = [events EXCEPT ![p] = Append(@, e)]

\* lines 23-26: the command is run with `clone <uri> [-l]`, one of inputs
Start(p, inputs) ==
    /\ pc[p] \in {"idle", "exited"}
    /\ inv < MaxInvocations
    /\ inv' = inv + 1
    /\ cloned' = IF git[p].state = "exited" /\ git[p].status = 0
                 THEN cloned \cup {args[p].uri} ELSE cloned
    /\ \E a \in inputs : args' = [args EXCEPT ![p] = a]
    /\ pc' = [pc EXCEPT ![p] = "repos_dir"]
    /\ result' = [result EXCEPT ![p] = NoResult]
    /\ cwd' = [cwd EXCEPT ![p] = HomePath]
    /\ events' = [events EXCEPT ![p] = <<>>]
    /\ git' = [git EXCEPT ![p] = NoChild]
    /\ ln' = [ln EXCEPT ![p] = NoChild]
    /\ pipe' = [pipe EXCEPT ![p] = [s \in Streams |-> <<>>]]
    /\ thr' = [thr EXCEPT ![p] = [s \in Streams |-> "none"]]
    /\ stdout' = [stdout EXCEPT ![p] = NoPrint]
    /\ line' = [line EXCEPT ![p] = [s \in Streams |-> 0]]
    /\ UNCHANGED <<home, fs, harness>>

\* line 32
ReposDir(p) ==
    /\ pc[p] = "repos_dir"
    /\ \E made \in 0..(Len(HomePath) + 1) :
         LET r == repos_dir(home, fs, made)
         IN  /\ fs' = r.fs
             /\ IF r.ok THEN Goto(p, "parse") ELSE Return(p, Err(r.err))
    /\ UNCHANGED <<home, inv, cloned, args, cwd, events, children, output, harness>>

\* a parse error that does not end the invocation
ParseUriErrorIgnored(p) ==
    /\ pc[p] = "parse"
    /\ Goto(p, "mkdir")
    /\ UNCHANGED <<home, fs, inv, cloned, args, cwd, events, children, output, harness>>

\* line 34
ParseUri(p) ==
    /\ pc[p] = "parse"
    /\ IF Loc(p).ok THEN Goto(p, "mkdir") ELSE Return(p, Err("UriParseError"))
    /\ UNCHANGED <<home, fs, inv, cloned, args, cwd, events, children, output, harness>>

\* lines 36-40
MakeDomainUserDir(p) ==
    /\ pc[p] = "mkdir"
    /\ IF ~metadata_is_ok(fs, domain_user_dir(p))
       THEN \E made \in 0..Len(domain_user_dir(p)) :
              LET c == create_dir_all(fs, domain_user_dir(p), made)
              IN  /\ fs' = c.fs
                  /\ IF c.ok THEN Goto(p, "check")
                     ELSE Return(p, Err("DirectoryCreationFailed"))
       ELSE /\ fs' = fs
            /\ Goto(p, "check")
    /\ UNCHANGED <<home, inv, cloned, args, cwd, events, children, output, harness>>

\* the existence test the wrong way round
CheckTargetInverted(p) ==
    /\ pc[p] = "check"
    /\ IF ~metadata_is_ok(fs, target_dir(p))
       THEN /\ Println(p, PrintPath(target_dir(p)))
            /\ Return(p, Err("AlreadyExists"))
       ELSE /\ events' = events
            /\ Goto(p, "chdir")
    /\ UNCHANGED <<home, fs, inv, cloned, args, cwd, children, output, harness>>

\* lines 42-46
CheckTarget(p) ==
    /\ pc[p] = "check"
    /\ IF ~(~metadata_is_ok(fs, target_dir(p)))
       THEN /\ Println(p, PrintPath(target_dir(p)))
            /\ Return(p, Err("AlreadyExists"))
       ELSE /\ events' = events
            /\ Goto(p, "chdir")
    /\ UNCHANGED <<home, fs, inv, cloned, args, cwd, children, output, harness>>

\* the process staying in the directory it was started in
SetCurrentDirStays(p) ==
    /\ pc[p] = "chdir"
    /\ cwd' = cwd
    /\ Goto(p, "spawn_git")
    /\ UNCHANGED <<home, fs, inv, cloned, args, events, children, output, harness>>

\* line 48
SetCurrentDir(p) ==
    /\ pc[p] = "chdir"
    /\ \/ /\ metadata_is_ok(fs, domain_user_dir(p))
          /\ cwd' = [cwd EXCEPT ![p] = domain_user_dir(p)]
          /\ Goto(p, "spawn_git")
       \/ /\ cwd' = cwd
          /\ Return(p, Err("SetCurrentDirFailed"))
    /\ UNCHANGED <<home, fs, inv, cloned, args, events, children, output, harness>>

\* lines 50-64: the child inherits the process's working directory, and its
\* two streams are pipes; it will write at most maxl lines to each
SpawnGit(p, maxl) ==
    /\ pc[p] = "spawn_git"
    /\ \/ /\ \E lines \in [Streams -> 0..maxl] :
               git' = [git EXCEPT ![p] =
                         [state |-> "running", cwd |-> cwd[p],
                          words |-> << <<"c", "l", "o", "n", "e">>, args[p].uri, Loc(p).repo >>,
                          left |-> lines, made |-> FALSE, status |-> 0]]
          /\ events' = [events EXCEPT ![p] =
                          Append(@, SpawnEv("git", <<cwd[p]>>,
                                    << <<"c", "l", "o", "n", "e">>, args[p].uri, Loc(p).repo >>))]
          /\ Goto(p, "spawn_thr_err")
       \/ /\ UNCHANGED <<git, events>>
          /\ Return(p, Err("SpawnError"))
    /\ UNCHANGED <<home, fs, inv, cloned, args, cwd, pipe, thr, ln, output, harness>>

\* lines 66-73
SpawnDrainErr(p) ==
    /\ pc[p] = "spawn_thr_err"
    /\ thr' = [thr EXCEPT ![p]["err"] = "running"]
    /\ Goto(p, "spawn_thr_out")
    /\ UNCHANGED <<home, fs, inv, cloned, args, cwd, events, git, pipe, ln, output, harness>>

\* the control thread going on to wait with no thread on the child's stdout
SpawnDrainOutNever(p) ==
    /\ pc[p] = "spawn_thr_out"
    /\ thr' = thr
    /\ Goto(p, "wait_git")
    /\ UNCHANGED <<home, fs, inv, cloned, args, cwd, events, git, pipe, ln, output, harness>>

\* lines 75-82
SpawnDrainOut(p) ==
    /\ pc[p] = "spawn_thr_out"
    /\ thr' = [thr EXCEPT ![p]["out"] = "running"]
    /\ Goto(p, "wait_git")
    /\ UNCHANGED <<home, fs, inv, cloned, args, cwd, events, git, pipe, ln, output, harness>>

\* a wait that takes only a positive exit code for a failure
WaitGitCodeOnly(p) ==
    /\ pc[p] = "wait_git"
    /\ git[p].state = "exited"
    /\ IF git[p].status > 0
       THEN Return(p, ErrStatus("SubprocessFailed", git[p].status))
       ELSE Goto(p, "print_target")
    /\ UNCHANGED <<home, fs, inv, cloned, args, cwd, events, children, output, harness>>

\* the control thread going on without waiting for the child to end
WaitGitNoWait(p) ==
    /\ pc[p] = "wait_git"
    /\ IF git[p].state = "exited" /\ ~(git[p].status = 0)
       THEN Return(p, ErrStatus("SubprocessFailed", git[p].status))
       ELSE Goto(p, "print_target")
    /\ UNCHANGED <<home, fs, inv, cloned, args, cwd, events, children, output, harness>>

\* lines 85-89
WaitGit(p) ==
    /\ pc[p] = "wait_git"
    /\ git[p].state = "exited"
    /\ IF ~(git[p].status = 0)
       THEN Return(p, ErrStatus("SubprocessFailed", git[p].status))
       ELSE Goto(p, "print_target")
    /\ UNCHANGED <<home, fs, inv, cloned, args, cwd, events, children, output, harness>>

\* the link made only when -l was given: without it the invocation ends here
PrintTargetLinkIfFlag(p) ==
    /\ pc[p] = "print_target"
    /\ IF home = "nonutf8"
       THEN /\ events' = events
            /\ Return(p, Err("NonUtf8Path"))
       ELSE /\ Println(p, PrintPath(target_dir(p)))
            /\ IF args[p].link THEN Goto(p, "projects_dir") ELSE Return(p, Ok)
    /\ UNCHANGED <<home, fs, inv, cloned, args, cwd, children, output, harness>>

\* lines 91-92
PrintTarget(p) ==
    /\ pc[p] = "print_target"
    /\ IF home = "nonutf8"
       THEN /\ events' = events
            /\ Return(p, Err("NonUtf8Path"))
       ELSE /\ Println(p, PrintPath(target_dir(p)))
            /\ Goto(p, "projects_dir")
    /\ UNCHANGED <<home, fs, inv, cloned, args, cwd, children, output, harness>>

\* line 94
ProjectsDir(p) ==
    /\ pc[p] = "projects_dir"
    /\ \E made \in 0..(Len(HomePath) + 1) :
         LET r == projects_dir(home, fs, made)
         IN  /\ fs' = r.fs
             /\ IF r.ok THEN Goto(p, "print_link") ELSE Return(p, Err(r.err))
    /\ UNCHANGED <<home, inv, cloned, args, cwd, events, children, output, harness>>

\* lines 95-97
PrintLink(p) ==
    /\ pc[p] = "print_link"
    /\ IF home = "nonutf8"
       THEN /\ events' = events
            /\ Return(p, Err("NonUtf8Path"))
       ELSE /\ Println(p, PrintPath(link(p)))
            /\ Goto(p, "spawn_ln")
    /\ UNCHANGED <<home, fs, inv, cloned, args, cwd, children, output, harness>>

\* lines 99-103
SpawnLn(p) ==
    /\ pc[p] = "spawn_ln"
    /\ \/ /\ ln' = [ln EXCEPT ![p] =
                      [NoChild EXCEPT !.state = "running", !.cwd = cwd[p]]]
          /\ events' = [events EXCEPT ![p] =
                          Append(@, SpawnEv("ln", <<target_dir(p), link(p)>>, << <<"-", "s">> >>))]
          /\ Goto(p, "wait_ln")
       \/ /\ UNCHANGED <<ln, events>>
          /\ Return(p, Err("SpawnError"))
    /\ UNCHANGED <<home, fs, inv, cloned, args, cwd, git, pipe, thr, output, harness>>

\* a wait that rolls the clone back when the link could not be made
WaitLnRollback(p) ==
    /\ pc[p] = "wait_ln"
    /\ ln[p].state = "exited"
    /\ IF ~(ln[p].status = 0)
       THEN /\ fs' = fs \ Under(fs, target_dir(p))
            /\ Return(p, ErrStatus("LinkCreationFailed", ln[p].status))
       ELSE /\ fs' = fs
            /\ Return(p, Ok)
    /\ UNCHANGED <<home, inv, cloned, args, cwd, events, children, output, harness>>

\* lines 105-111
WaitLn(p) ==
    /\ pc[p] = "wait_ln"
    /\ ln[p].state = "exited"
    /\ IF ~(ln[p].status = 0)
       THEN Return(p, ErrStatus("LinkCreationFailed", ln[p].status))
       ELSE Return(p, Ok)
    /\ UNCHANGED <<home, fs, inv, cloned, args, cwd, events, children, output, harness>>

\* lines 23-29: main returns what do_clone returned and the process exits,
\* which ends its detached threads wherever they are
ProcessExit(p) ==
    /\ pc[p] = "returned"
    /\ pc' = [pc EXCEPT ![p] = "exited"]
    /\ thr' = [thr EXCEPT ![p] =
                 [s \in Streams |-> IF thr[p][s] = "running" THEN "killed" ELSE thr[p][s]]]
    /\ UNCHANGED <<home, fs, inv, cloned, args, cwd, result, events, git, pipe, ln, output, harness>>

---------------------------------------------------------------------------
(* The children and the drain threads.                                     *)

\* the directory `git clone <uri> <repo>` clones into
GitTarget(p) == Join(git[p].cwd, git[p].words[3])
\* ".git", which a clone holds
DotGitName == <<".", "g", "i", "t">>

\* git writes its next line to one of its streams, unless that pipe is full
GitWrite(p, s) ==
    /\ git[p].state = "running"
    /\ git[p].left[s] > 0
    /\ Len(pipe[p][s]) < PipeCap
    /\ pipe' = [pipe EXCEPT ![p][s] = Append(@, git[p].left[s])]
    /\ git' = [git EXCEPT ![p].left[s] = @ - 1]
    /\ UNCHANGED <<home, fs, inv, cloned, pc, args, cwd, result, events, thr, ln, output, harness>>

\* git creates the directory it clones into, which must not exist yet
GitMakeDir(p) ==
    /\ git[p].state = "running"
    /\ ~git[p].made
    /\ ~metadata_is_ok(fs, GitTarget(p))
    /\ metadata_is_ok(fs, git[p].cwd)
    /\ fs' = fs \cup {GitTarget(p), Append(GitTarget(p), DotGitName)}
    /\ git' = [git EXCEPT ![p].made = TRUE]
    /\ UNCHANGED <<home, inv, cloned, pc, args, cwd, result, events, pipe, thr, ln, output, harness>>

\* git ends, closing its ends of the pipes: with success only if it made the
\* clone; a failing git removes what it made unless it was killed first
GitExit(p) ==
    /\ git[p].state = "running"
    /\ \A s \in Streams : git[p].left[s] = 0
    /\ \E st \in Statuses :
         /\ st = 0 => git[p].made
         /\ git' = [git EXCEPT ![p].state = "exited", ![p].status = st]
         /\ \/ fs' = fs
            \/ /\ st # 0
               /\ git[p].made
               /\ fs' = fs \ Under(fs, GitTarget(p))
    /\ UNCHANGED <<home, inv, cloned, pc, args, cwd, result, events, pipe, thr, ln, output, harness>>

\* a piece of text in the line buffer: line n of stream s
Frag(s, n) == [who |-> s, n |-> n]
\* a printed line that is no line of either stream
MixedLine(s) == Ev("print", s, <<>>, <<>>, 0, 0)
\* the line that leaves the buffer when s writes its newline
Flushed(buf, s) ==
    IF Len(buf) = 1 /\ buf[1].who = s THEN PrintLine(s, buf[1].n) ELSE MixedLine(s)

\* lines 70 and 79: one turn of `for line in reader.lines()`: the thread
\* takes the next line of its pipe, or ends at end-of-stream
Drain(p, s) ==
    /\ thr[p][s] = "running"
    /\ line[p][s] = 0
    /\ IF pipe[p][s] # <<>>
       THEN /\ pipe' = [pipe EXCEPT ![p][s] = Tail(@)]
            /\ line' = [line EXCEPT ![p][s] = Head(pipe[p][s])]
            /\ thr' = thr
       ELSE /\ git[p].state = "exited"
            /\ thr' = [thr EXCEPT ![p][s] = "done"]
            /\ UNCHANGED <<pipe, line>>
    /\ UNCHANGED <<home, fs, inv, cloned, pc, args, cwd, result, events, git, ln,
                   stdout, harness>>

\* println! writing a line's text with no regard to the lock
PrintlnTextUnlocked(p, s) ==
    /\ thr[p][s] = "running"
    /\ line[p][s] # 0
    /\ stdout[p].lock # s
    /\ stdout' = [stdout EXCEPT ![p] =
                    [lock |-> s, buf |-> Append(stdout[p].buf, Frag(s, line[p][s]))]]
    /\ UNCHANGED <<home, fs, inv, cloned, pc, args, cwd, result, events, children,
                   line, harness>>

\* lines 71 and 80: println! takes the lock of standard output and writes the
\* text of the line into the line buffer
PrintlnText(p, s) ==
    /\ thr[p][s] = "running"
    /\ line[p][s] # 0
    /\ stdout[p].lock = "none"
    /\ stdout' = [stdout EXCEPT ![p] =
                    [lock |-> s, buf |-> Append(stdout[p].buf, Frag(s, line[p][s]))]]
    /\ UNCHANGED <<home, fs, inv, cloned, pc, args, cwd, result, events, children,
                   line, harness>>

\* lines 71 and 80: println! writes the newline, at which the buffer goes out
\* as one line, and releases the lock
PrintlnNewline(p, s) ==
    /\ thr[p][s] = "running"
    /\ stdout[p].lock = s
    /\ events' = [events EXCEPT ![p] = Append(@, Flushed(stdout[p].buf, s))]
    /\ stdout' = [stdout EXCEPT ![p] = NoPrint]
    /\ line' = [line EXCEPT ![p][s] = 0]
    /\ UNCHANGED <<home, fs, inv, cloned, pc, args, cwd, result, children, harness>>

\* `ln -s <target> <link>` ends: with success it has made the link, which it
\* cannot when the link path exists
LnExit(p) ==
    /\ ln[p].state = "running"
    /\ \E st \in Statuses :
         /\ st = 0 => ~metadata_is_ok(fs, link(p))
         /\ ln' = [ln EXCEPT ![p].state = "exited", ![p].status = st]
         /\ fs' = IF st = 0 THEN fs \cup {link(p)} ELSE fs
    /\ UNCHANGED <<home, inv, cloned, pc, args, cwd, result, events, git, pipe, thr, output, harness>>

---------------------------------------------------------------------------
(* Invocations of the command one after another.                           *)

\* what a step of process p does to the harness of the paired runs: "lead"
\* and "follow" are the two turns of a pair; "once" leaves it alone and bars
\* a second invocation; any other mode leaves it alone
Frame(p, mode) ==
    IF mode = "lead"
    THEN twin' = [turn |-> IF fs' = fs THEN "follow" ELSE "rewind",
                  before |-> fs, after |-> fs']
    ELSE IF mode = "follow"
    THEN twin' = [twin EXCEPT !.turn = "lead"]
    ELSE IF mode = "once"
    THEN pc[p] # "exited" /\ UNCHANGED twin
    ELSE UNCHANGED twin

\* a step of process p up to the end of its wait for git, or of its git child
\* or drain threads: p is run with one of inputs, and git writes at most maxl
\* lines to a stream
CloneStep(p, maxl, inputs, mode) ==
    \/ Start(p, inputs) /\ Frame(p, mode)
    \/ ReposDir(p) /\ Frame(p, mode)
    \/ ParseUri(p) /\ Frame(p, mode)
    \/ MakeDomainUserDir(p) /\ Frame(p, mode)
    \/ CheckTarget(p) /\ Frame(p, mode)
    \/ SetCurrentDir(p) /\ Frame(p, mode)
    \/ SpawnGit(p, maxl) /\ Frame(p, mode)
    \/ SpawnDrainErr(p) /\ Frame(p, mode)
    \/ SpawnDrainOut(p) /\ Frame(p, mode)
    \/ WaitGit(p) /\ Frame(p, mode)
    \/ \E s \in Streams : GitWrite(p, s) /\ Frame(p, mode)
    \/ GitMakeDir(p) /\ Frame(p, mode)
    \/ GitExit(p) /\ Frame(p, mode)
    \/ \E s \in Streams : Drain(p, s) /\ Frame(p, mode)
    \/ \E s \in Streams : PrintlnText(p, s) /\ Frame(p, mode)
    \/ \E s \in Streams : PrintlnNewline(p, s) /\ Frame(p, mode)

\* a step of process p after its wait for git, or of its ln child
LinkStep(p, mode) ==
    \/ PrintTarget(p) /\ Frame(p, mode)
    \/ ProjectsDir(p) /\ Frame(p, mode)
    \/ PrintLink(p) /\ Frame(p, mode)
    \/ SpawnLn(p) /\ Frame(p, mode)
    \/ WaitLn(p) /\ Frame(p, mode)
    \/ ProcessExit(p) /\ Frame(p, mode)
    \/ LnExit(p) /\ Frame(p, mode)

Pipeline(p, maxl, inputs, mode) ==
    CloneStep(p, maxl, inputs, mode) \/ LinkStep(p, mode)

\* every URI, without -l
Step(p) == Pipeline(p, MaxLines, [uri : CloneUris, link : {FALSE}], "again")

Next == Step("p1")

Spec == Init /\ [][Next]_vars

---------------------------------------------------------------------------
(* One invocation, from its start to the exit of the process, whose git    *)
(* child may write more lines than a pipe holds.                           *)

NextDrain ==
    Pipeline("p1", MaxBurst, [uri : {UriABC}, link : {FALSE}], "once")

SpecDrain == Init /\ [][NextDrain]_vars

---------------------------------------------------------------------------
(* Two invocations of the same URI at once, against the same roots, each up *)
(* to the end of its wait for git.                                         *)

InitConc ==
    /\ home = "utf8"
    /\ fs = {HomePath, Join(HomePath, ReposName), Join(HomePath, ProjectsName)}
    /\ Idle
    /\ uri_in = <<>>
    /\ parsed = NotParsed
    /\ calls = <<>>

NextConc == \E p \in Procs : CloneStep(p, MaxLines, [uri : {UriABC}, link : {FALSE}], "once")

SpecConc == InitConc /\ [][NextConc]_vars

---------------------------------------------------------------------------
(* Two runs of the command side by side, one with -l and one without: p1   *)
(* takes a step from a filesystem, and p2, in the state p1 was in, has to  *)
(* take the same step from the same filesystem.                            *)

\* a URI that parses and one that does not, with and without -l
TwinInputs == [uri : {UriGitABC, UriBad}, link : BOOLEAN]

\* everything of process p but its flag
Visible(p) ==
    <<pc[p], args[p].uri, cwd[p], result[p], events[p], git[p], pipe[p], thr[p],
      ln[p], stdout[p], line[p]>>

\* p1 takes a step of an invocation with either flag
TwinLead ==
    /\ twin.turn = "lead"
    /\ pc["p1"] \in {"idle", "exited"} => inv + 1 < MaxInvocations
    /\ Pipeline("p1", MaxLines, TwinInputs, "lead")

\* the filesystem, if p1's step changed it, is put back to what it was before
TwinRewind ==
    /\ twin.turn = "rewind"
    /\ fs' = twin.before
    /\ twin' = [twin EXCEPT !.turn = "follow"]
    /\ UNCHANGED <<home, inv, cloned, pc, args, cwd, result, events, children, output,
                   harness>>

\* p2, run with the other flag, takes the step p1 took
TwinFollow ==
    /\ twin.turn = "follow"
    /\ Pipeline("p2", MaxLines, TwinInputs, "follow")
    /\ args'["p2"].link = ~args["p1"].link
    /\ Visible("p2")' = Visible("p1")
    /\ fs' = twin.after

NextTwin == TwinLead \/ TwinRewind \/ TwinFollow

SpecTwin == Init /\ [][NextTwin]_vars

---------------------------------------------------------------------------
(* parse_uri on its own: every input of a bounded set is parsed once.      *)

\* the characters of the free-form part of an input
Alphabet == {"a", "/", ".", ":"}
\* what an input starts with: nothing, the two prefixes, and near misses
Prefixes == {<<>>, Https, GitAt, <<"h", "t", "t", "p", ":", "/", "/">>, <<"g", "i", "t">>}
Suffixes == {<<>>, DotGit}
BoundedSeq(S, n) == UNION {[1..k -> S] : k \in 0..n}
ParseInputs ==
    {pre \o body \o suf :
        pre \in Prefixes, body \in BoundedSeq(Alphabet, MaxBody), suf \in Suffixes}

InitParse ==
    /\ home = "utf8"
    /\ fs = {HomePath}
    /\ Idle
    /\ uri_in \in ParseInputs
    /\ parsed = NotParsed
    /\ calls = <<>>

\* parse_uri(&uri), as line 34 and the test of lines 188-198 call it
ParseCall ==
    /\ ~parsed.called
    /\ parsed' = [called |-> TRUE, r |-> parse_uri(uri_in)]
    /\ UNCHANGED <<home, fs, inv, cloned, pc, args, cwd, result, events, children,
                   output, twin, uri_in, calls>>

NextParse == ParseCall

SpecParse == InitParse /\ [][NextParse]_vars

Has(s, ch) == \E i \in 1..Len(s) : s[i] = ch
NoSlashDot(s) == ~Has(s, "/") /\ ~Has(s, ".")
Count(s, ch) == Cardinality({i \in 1..Len(s) : s[i] = ch})
\* s without its last character
Front(s) == SubSeq(s, 1, Len(s) - 1)
EndsWith(s, suf) ==
    /\ Len(s) >= Len(suf)
    /\ SubSeq(s, Len(s) - Len(suf) + 1, Len(s)) = suf

\* C6: for all H, U, R without '/' and '.', parse_uri("https://H/U/R") and
\* parse_uri("https://H/U/R/") succeed and yield {host: H, user: U, repo: R}.
C6_HttpsForm ==
    (parsed.called /\ starts_with(uri_in, Https)) =>
        LET b == SliceFrom(uri_in, 8)
        IN  \A i, j \in 1..Len(b) :
              LET H == SubSeq(b, 1, i - 1)
                  U == SubSeq(b, i + 1, j - 1)
                  t == SubSeq(b, j + 1, Len(b))
              IN  (/\ i < j /\ b[i] = "/" /\ b[j] = "/"
                   /\ NoSlashDot(H) /\ NoSlashDot(U))
                  => /\ NoSlashDot(t) => parsed.r = ParseOk(H, U, t)
                     /\ (EndsWith(t, <<"/">>) /\ NoSlashDot(Front(t)))
                            => parsed.r = ParseOk(H, U, Front(t))

\* C6 happens: https://H/U/R/ with H, U, R non-empty has been parsed
C6_Witness ==
    /\ parsed.called
    /\ uri_in = Https \o <<"a", "/", ":", "/", "a", "/">>
    /\ parsed.r = ParseOk(<<"a">>, <<":">>, <<"a">>)

\* C7: for all inputs git@H:U/R and git@H:U/R.git (H without ':', U without
\* '/', R without '/' and '.'), parse_uri succeeds and yields
\* {host: H, user: U, repo: R}.
C7_GitForm ==
    (parsed.called /\ starts_with(uri_in, GitAt)) =>
        LET b == SliceFrom(uri_in, 4)
        IN  \A i, j \in 1..Len(b) :
              LET H == SubSeq(b, 1, i - 1)
                  U == SubSeq(b, i + 1, j - 1)
                  t == SubSeq(b, j + 1, Len(b))
              IN  (/\ i < j /\ b[i] = ":" /\ b[j] = "/"
                   /\ ~Has(H, ":") /\ ~Has(U, "/"))
                  => /\ NoSlashDot(t) => parsed.r = ParseOk(H, U, t)
                     /\ (EndsWith(t, DotGit)
                         /\ NoSlashDot(SubSeq(t, 1, Len(t) - Len(DotGit))))
                            => parsed.r = ParseOk(H, U, SubSeq(t, 1, Len(t) - Len(DotGit)))

\* C7 happens: git@H:U/R.git with H, U, R non-empty has been parsed
C7_Witness ==
    /\ parsed.called
    /\ uri_in = GitAt \o <<"a", ":", "a", "/", "a">> \o DotGit
    /\ parsed.r = ParseOk(<<"a">>, <<"a">>, <<"a">>)

\* the inputs C8 says parse_uri rejects
C8_Rejected(uri) ==
    \/ ~starts_with(uri, Https) /\ ~starts_with(uri, GitAt)
    \/ starts_with(uri, Https) /\ Count(SliceFrom(uri, 8), "/") < 2
    \/ /\ starts_with(uri, GitAt)
       /\ LET b == SliceFrom(uri, 4)
          IN  \/ ~Has(b, ":")
              \/ \A i \in 1..Len(b) :
                    (b[i] = ":" /\ ~Has(SubSeq(b, 1, i - 1), ":"))
                        => ~Has(SubSeq(b, i + 1, Len(b)), "/")

\* C8: parse_uri returns a parse error for every string with neither prefix,
\* for every "https://" string with fewer than two '/' after the prefix and
\* for every "git@" string without a ':' after the prefix or without a '/'
\* after that first ':'; it succeeds for every other input.
C8_ErrorsExactly ==
    parsed.called => (parsed.r.ok <=> ~C8_Rejected(uri_in))

\* C8 happens: a well-prefixed input without its delimiter has been rejected
C8_Witness ==
    /\ parsed.called
    /\ uri_in = GitAt \o <<"a", "/", "a", ":", "a">>
    /\ ~parsed.r.ok

\* C9 as stated: every location parse_uri returns has three non-empty fields,
\* none of which contains a '/' or a '.'.
C9_AsStated ==
    (parsed.called /\ parsed.r.ok) =>
        \A f \in {parsed.r.domain, parsed.r.user, parsed.r.repo} :
            f # <<>> /\ NoSlashDot(f)

\* C9, amended: in every location parse_uri returns, the repo contains no '/'
\* and no '.', the user contains no '/', and the host contains no '/' (HTTPS
\* form) or no ':' (SSH form).
C9_Fields ==
    (parsed.called /\ parsed.r.ok) =>
        /\ NoSlashDot(parsed.r.repo)
        /\ ~Has(parsed.r.user, "/")
        /\ starts_with(uri_in, Https) => ~Has(parsed.r.domain, "/")
        /\ starts_with(uri_in, GitAt) => ~Has(parsed.r.domain, ":")

\* C9 happens: a location whose host has a dot, as github.com has, and whose
\* repo was cut at its dot
C9_Witness ==
    /\ parsed.called
    /\ parsed.r.ok
    /\ uri_in = GitAt \o <<"a", ".", ":", "a", "/", "a">> \o DotGit
    /\ Has(parsed.r.domain, ".")
    /\ parsed.r.repo = <<"a">>

---------------------------------------------------------------------------
(* repos_dir and projects_dir on their own: a bounded number of calls from *)
(* any initial filesystem.                                                 *)

InitRoot ==
    /\ home \in {"utf8", "nonutf8", "none"}
    /\ fs \in {S \cup T : S \in {{}, {HomePath}},
                         T \in SUBSET {Join(HomePath, ReposName), Join(HomePath, ProjectsName)}}
    /\ Idle
    /\ uri_in = <<>>
    /\ parsed = NotParsed
    /\ calls = <<>>

Called(sub, r) ==
    [sub |-> sub, ok |-> r.ok, path |-> r.path, before |-> fs, after |-> r.fs]

\* repos_dir(), as lines 32 and 201 call it
CallReposDir ==
    /\ Len(calls) < MaxCalls
    /\ \E made \in 0..(Len(HomePath) + 1) :
         LET r == repos_dir(home, fs, made)
         IN  /\ fs' = r.fs
             /\ calls' = Append(calls, Called("repos", r))
    /\ UNCHANGED <<home, inv, cloned, pc, args, cwd, result, events, children,
                   output, twin, uri_in, parsed>>

\* projects_dir(), as line 94 calls it
CallProjectsDir ==
    /\ Len(calls) < MaxCalls
    /\ \E made \in 0..(Len(HomePath) + 1) :
         LET r == projects_dir(home, fs, made)
         IN  /\ fs' = r.fs
             /\ calls' = Append(calls, Called("projects", r))
    /\ UNCHANGED <<home, inv, cloned, pc, args, cwd, result, events, children,
                   output, twin, uri_in, parsed>>

NextRoot == CallReposDir \/ CallProjectsDir

SpecRoot == InitRoot /\ [][NextRoot]_vars

\* C10 as stated: with a resolvable home directory, the second of two calls
\* with the same subdirectory never errors, returns the path the first one
\* returned, and changes nothing on disk.
C10_AsStated ==
    \A k, l \in 1..Len(calls) :
        (k < l /\ calls[k].sub = calls[l].sub /\ home # "none") =>
            /\ calls[l].ok
            /\ calls[l].path = calls[k].path
            /\ calls[l].after = calls[l].before

\* C10, amended: with a resolvable home directory, after a call that succeeded
\* a second call with the same subdirectory never errors, returns the same
\* path, and changes nothing on disk.
C10_Idempotent ==
    \A k, l \in 1..Len(calls) :
        (k < l /\ calls[k].sub = calls[l].sub /\ home # "none" /\ calls[k].ok) =>
            /\ calls[l].ok
            /\ calls[l].path = calls[k].path
            /\ calls[l].after = calls[l].before

\* C10 happens: repos_dir created its directory, and was called again
C10_Witness ==
    /\ Len(calls) = 2
    /\ calls[1].sub = "repos" /\ calls[2].sub = "repos"
    /\ calls[1].ok /\ calls[1].after # calls[1].before
    /\ calls[2].ok /\ calls[2].path = Join(HomePath, ReposName)

---------------------------------------------------------------------------
(* The clone pipeline's claims.                                            *)

\* the trace without the lines the drain threads printed
MainEvents(p) ==
    LET NotDrained(e) == e.who \notin Streams
    IN  SelectSeq(events[p], NotDrained)

Spawned(p) == \E i \in 1..Len(events[p]) : events[p][i].t = "spawn"

IsPrefix(s, t) == Len(s) <= Len(t) /\ SubSeq(t, 1, Len(s)) = s

Over(p) == pc[p] \in {"returned", "exited"}

\* what a clone leaves on disk
CloneTree(dir) == {dir, Append(dir, DotGitName)}

\* C1: cloning when the target directory exists prints the target path, fails
\* with AlreadyExists, and starts neither the clone nor the symlink subprocess
\* in that invocation.
C1_AlreadyExists ==
    /\ [](\A p \in Procs :
            result[p].kind = "AlreadyExists" =>
                /\ events[p] = <<PrintPath(target_dir(p))>>
                /\ git[p].state = "none"
                /\ ln[p].state = "none")
    /\ [][\A p \in Procs :
            (pc[p] = "check" /\ metadata_is_ok(fs, target_dir(p)) /\ pc'[p] # "check")
                => (pc'[p] = "returned" /\ result'[p] = Err("AlreadyExists"))]_vars

\* C1 happens: an invocation found its target directory and returned
C1_Witness ==
    /\ pc["p1"] = "returned"
    /\ result["p1"].kind = "AlreadyExists"
    /\ target_dir("p1") \in fs
    /\ events["p1"] = <<PrintPath(target_dir("p1"))>>

C3_Expected(p) ==
    LET l == Loc(p)
        parent == Join(Join(Join(HomePath, ReposName), l.domain), l.user)
        target == Join(parent, l.repo)
        lnk == Join(Join(HomePath, ProjectsName), l.repo)
    IN  << SpawnEv("git", <<parent>>, << <<"c", "l", "o", "n", "e">>, args[p].uri, l.repo >>),
           PrintPath(target),
           PrintPath(lnk),
           SpawnEv("ln", <<target, lnk>>, << <<"-", "s">> >>) >>

\* C3: in a successful clone the clone subprocess exits with success, then the
\* target path is printed, then the link path, then the symlink primitive is
\* invoked with (target, link); no path is printed before the clone
\* subprocess has exited.
C3_Order ==
    \A p \in Procs :
        (pc[p] # "idle" /\ result[p].kind # "AlreadyExists") =>
            LET main == MainEvents(p)
            IN  /\ main # <<>> => IsPrefix(main, C3_Expected(p))
                /\ Len(main) >= 2 => (git[p].state = "exited" /\ git[p].status = 0)
                /\ result[p] = Ok =>
                     /\ Len(main) = 4
                     /\ ln[p].state = "exited" /\ ln[p].status = 0

\* C3 happens: a clone succeeded, with a line of git's output drained
C3_Witness ==
    /\ result["p1"] = Ok
    /\ Len(MainEvents("p1")) = 4
    /\ Len(events["p1"]) > 4

C5_Repeat ==
    \A p \in Procs :
        (pc[p] # "idle" /\ args[p].uri \in cloned) =>
            /\ ~Spawned(p)
            /\ git[p].state = "none" /\ ln[p].state = "none"
            /\ LET dir == target_dir(p) IN Under(fs, dir) = CloneTree(dir)
            /\ Over(p) => result[p] = Err("AlreadyExists")

\* C5 happens: the same URI cloned before, and the repeat has returned
C5_Witness ==
    /\ args["p1"].uri = UriABC
    /\ UriABC \in cloned
    /\ pc["p1"] = "exited"
    /\ result["p1"] = Err("AlreadyExists")

\* C11: the -l flag has no effect: whatever step an invocation with one value
\* of the flag takes (filesystem action, subprocess start, printed line,
\* result), an invocation with the other value, in the same state and on the
\* same filesystem, can take the same step with the same outcome.
C11_FlagNoEffect ==
    /\ twin.turn = "follow" => ENABLED TwinFollow
    /\ twin.turn = "lead" =>
          /\ Visible("p1") = Visible("p2")
          /\ pc["p1"] # "idle" => args["p1"].link # args["p2"].link

\* C11 happens: a clone with -l and its twin without have both run to a
\* successful end and exited
C11_Witness ==
    /\ twin.turn = "lead"
    /\ pc["p1"] = "exited" /\ pc["p2"] = "exited"
    /\ args["p1"].link /\ ~args["p2"].link
    /\ result["p1"] = Ok /\ result["p2"] = Ok
    /\ Len(events["p1"]) > 4 /\ events["p2"] = events["p1"]

---------------------------------------------------------------------------
(* The pipes and the drain threads.                                        *)

\* the lines the drain threads printed
Drained(p) ==
    LET ByThread(e) == e.who \in Streams
    IN  SelectSeq(events[p], ByThread)

\* the lines of stream s the drain thread printed
DrainedOf(p, s) ==
    LET OfStream(e) == e.who = s
    IN  SelectSeq(events[p], OfStream)

\* the control thread is past the wait for git
PastWait(p) ==
    pc[p] \in {"print_target", "projects_dir", "print_link", "spawn_ln", "wait_ln",
               "returned", "exited"}

\* C12 as stated: once the control thread is past its wait for the clone
\* subprocess (the clone step is complete, or do_clone has returned), both
\* drain threads have reached end-of-stream and printed every line: none is
\* left in a pipe or in a thread's hands, to be lost or to be printed later.
C12_AsStated ==
    \A p \in Procs :
        (git[p].state # "none" /\ PastWait(p)) =>
            \A s \in Streams :
                /\ thr[p][s] = "done"
                /\ pipe[p][s] = <<>>
                /\ line[p][s] = 0

\* git cannot write its next line to stream s: the pipe is full
Blocked(p, s) ==
    /\ git[p].state = "running"
    /\ git[p].left[s] > 0
    /\ Len(pipe[p][s]) >= PipeCap

\* the steps still to come of git and of the drain threads
Rank(p) ==
    LET g == IF git[p].state = "running" THEN (IF git[p].made THEN 1 ELSE 2) ELSE 0
        Of(s) == 4 * git[p].left[s] + 3 * Len(pipe[p][s])
                 + (IF line[p][s] = 0 THEN 0 ELSE IF stdout[p].lock = s THEN 1 ELSE 2)
                 + (IF thr[p][s] = "running" THEN 1 ELSE 0)
    IN  g + Of("out") + Of("err")

\* C13: both drain threads are started before the control thread waits, so
\* while it waits no state has git blocked on a full pipe with no thread
\* reading that pipe: as long as git has not ended, git or a drain thread can
\* take a step, and every step they take while the control thread waits
\* brings the end of git nearer, so the wait returns.
C13_WaitReturns ==
    /\ [](\A p \in Procs :
            pc[p] = "wait_git" =>
                /\ \A s \in Streams :
                      /\ thr[p][s] \in {"running", "done"}
                      /\ Blocked(p, s) => thr[p][s] = "running"
                /\ git[p].state = "running" =>
                      ENABLED (\/ GitExit(p)
                               \/ \E s \in Streams :
                                     \/ GitWrite(p, s)
                                     \/ Drain(p, s)
                                     \/ PrintlnText(p, s)
                                     \/ PrintlnNewline(p, s)))
    /\ [][\A p \in Procs :
            (pc[p] = "wait_git" /\ pc'[p] = "wait_git") => Rank(p)' < Rank(p)]_vars

\* C13 happens: the control thread waits, git has a line it cannot write to
\* its full stdout pipe, and the thread of that pipe has yet to read
C13_Witness ==
    /\ pc["p1"] = "wait_git"
    /\ Blocked("p1", "out")
    /\ thr["p1"]["out"] = "running"
    /\ line["p1"]["out"] = 0

\* n, n-1, ..., 1
Countdown(n) == [i \in 1..n |-> n - i + 1]

\* the lines of stream s in the order git writes them: those printed, the
\* one in the thread's hands, those in the pipe, those not yet written
Lines(p, s) ==
    LET printed == DrainedOf(p, s)
    IN  [i \in 1..Len(printed) |-> printed[i].n]
        \o (IF line[p][s] = 0 THEN <<>> ELSE <<line[p][s]>>)
        \o pipe[p][s]
        \o Countdown(git[p].left[s])

\* C14: what the two drain threads print is a sequence of whole lines, each
\* a line read from git's stdout or stderr, the lines of each stream in the
\* order git wrote them; the text of two lines is never mixed.
C14_LineAtomic ==
    \A p \in Procs :
        /\ \A i \in 1..Len(events[p]) :
              LET e == events[p][i]
              IN  e.who \in Streams => (e.n >= 1 /\ e = PrintLine(e.who, e.n))
        /\ \A s \in Streams : Lines(p, s) = Countdown(Len(Lines(p, s)))
        /\ Len(stdout[p].buf) <= 1

\* C14 happens: a thread holds the lock with the text of its line written,
\* the other thread has a line to print, and a line has been printed before
C14_Witness ==
    /\ stdout["p1"].lock = "err"
    /\ Len(stdout["p1"].buf) = 1
    /\ line["p1"]["out"] = 1
    /\ Drained("p1") = <<PrintLine("out", 2)>>

---------------------------------------------------------------------------
(* The working directory, the clone subprocess, and the paths.             *)

\* C15 as stated: a clone invocation never changes the working directory of
\* its own process: at every point of do_clone, and after it on success or on
\* any failure, it is the directory the process was started in.
C15_AsStated ==
    \A p \in Procs : cwd[p] = HomePath

\* the git children process p started, in the trace
GitSpawns(p) ==
    LET IsGit(e) == e.t = "spawn" /\ e.who = "git"
    IN  SelectSeq(events[p], IsGit)

\* C16: the clone subprocess is started at most once in an invocation; when
\* it is started its arguments are [clone, the URI as given, the parsed repo
\* name], its working directory is <repos root>/<host>/<user>, which exists
\* at the spawn, and so the directory it clones into is the target directory
\* the existence check tested, which a successful clone has made.
C16_SpawnOnce ==
    /\ [](\A p \in Procs :
            LET l == Loc(p)
                parent == Join(Join(Join(HomePath, ReposName), l.domain), l.user)
                words == << <<"c", "l", "o", "n", "e">>, args[p].uri, l.repo >>
            IN  IF git[p].state = "none" THEN GitSpawns(p) = <<>>
                ELSE /\ GitSpawns(p) = <<SpawnEv("git", <<parent>>, words)>>
                     /\ git[p].words = words
                     /\ git[p].cwd = parent
                     /\ Join(git[p].cwd, git[p].words[3]) = Join(parent, l.repo)
                     /\ (git[p].state = "exited" /\ git[p].status = 0)
                            => Join(parent, l.repo) \in fs)
    /\ [][\A p \in Procs :
            (git[p].state = "none" /\ git'[p].state # "none")
                => /\ pc[p] = "spawn_git"
                   /\ git'[p].state = "running"
                   /\ metadata_is_ok(fs, domain_user_dir(p))]_vars

\* C16 happens: git was started in <repos root>/a/b and has made the clone
C16_Witness ==
    /\ git["p1"].state = "exited" /\ git["p1"].status = 0
    /\ git["p1"].cwd = Join(HomePath, ReposName) \o << <<"a">>, <<"b">> >>
    /\ Len(GitSpawns("p1")) = 1
    /\ target_dir("p1") \in fs
    /\ pc["p1"] = "print_target"

\* C17's two ways of stripping the remainder X
Deleted(X) ==
    LET Keep(ch) == ch \notin {"/", "."} IN SelectSeq(X, Keep)
UpToFirst(X) ==
    LET seps == {i \in 1..Len(X) : X[i] \in {"/", "."}}
    IN  IF seps = {} THEN X
        ELSE SubSeq(X, 1, (CHOOSE i \in seps : \A k \in seps : i <= k) - 1)

\* C17: for all H and U (without the delimiters of their form) and every
\* remainder X, the repo of parse_uri("https://H/U/X") is X with every '/'
\* and '.' deleted, and the repo of parse_uri("git@H:U/X") is what precedes
\* the first '/' or '.' of X, all of X if it has none.
C17_RepoStripping ==
    parsed.called =>
        /\ starts_with(uri_in, Https) =>
              LET b == SliceFrom(uri_in, 8)
              IN  \A i, j \in 1..Len(b) :
                    (/\ i < j /\ b[i] = "/" /\ b[j] = "/"
                     /\ ~Has(SubSeq(b, 1, i - 1), "/")
                     /\ ~Has(SubSeq(b, i + 1, j - 1), "/"))
                    => /\ parsed.r.ok
                       /\ parsed.r.repo = Deleted(SubSeq(b, j + 1, Len(b)))
        /\ starts_with(uri_in, GitAt) =>
              LET b == SliceFrom(uri_in, 4)
              IN  \A i, j \in 1..Len(b) :
                    (/\ i < j /\ b[i] = ":" /\ b[j] = "/"
                     /\ ~Has(SubSeq(b, 1, i - 1), ":")
                     /\ ~Has(SubSeq(b, i + 1, j - 1), "/"))
                    => /\ parsed.r.ok
                       /\ parsed.r.repo = UpToFirst(SubSeq(b, j + 1, Len(b)))

\* C17 happens: a remainder with a '.' in its middle, which the HTTPS form
\* deletes and keeps on
C17_Witness ==
    /\ parsed.called
    /\ uri_in = Https \o <<"/", "a", "/", "a", ".", "a">>
    /\ parsed.r.repo = <<"a", "a">>
    /\ UpToFirst(<<"a", ".", "a">>) = <<"a">>

\* C18 as stated: for every URI that parses, the target directory is exactly
\* three components below the repository root and the link path is a direct
\* child of the projects root, whatever the host, user and repo are.
C18_AsStated ==
    (parsed.called /\ parsed.r.ok) =>
        LET root == Join(HomePath, ReposName)
            proot == Join(HomePath, ProjectsName)
            target == Join(Join(Join(root, parsed.r.domain), parsed.r.user), parsed.r.repo)
            lnk == Join(proot, parsed.r.repo)
        IN  /\ IsPrefix(root, target) /\ Len(target) = Len(root) + 3
            /\ IsPrefix(proot, lnk) /\ Len(lnk) = Len(proot) + 1

\* C19: an invocation whose URI does not parse ends in failure having printed
\* nothing, started no subprocess and left its working directory alone, and
\* no step of it changes the filesystem but by creating the repository root.
C19_ParseFailure ==
    /\ [](\A p \in Procs :
            (pc[p] # "idle" /\ ~Loc(p).ok) =>
                /\ pc[p] \in {"repos_dir", "parse", "returned", "exited"}
                /\ events[p] = <<>>
                /\ git[p].state = "none" /\ ln[p].state = "none"
                /\ cwd[p] = HomePath
                /\ Over(p) => result[p] \in {Err("UriParseError"),
                                              Err("HomeDirectoryUnavailable"),
                                              Err("DirectoryCreationFailed")})
    /\ [][\A p \in Procs :
            (pc[p] # "idle" /\ ~Loc(p).ok) =>
                /\ fs \subseteq fs'
                /\ fs' \subseteq fs \cup {Join(HomePath, ReposName)}
                /\ (pc[p] = "parse" /\ pc'[p] # "parse")
                      => (pc'[p] = "returned" /\ result'[p] = Err("UriParseError"))]_vars

\* C19 happens: the repository root was made, then the URI did not parse
C19_Witness ==
    /\ args["p1"].uri = UriBad
    /\ pc["p1"] = "returned"
    /\ result["p1"] = Err("UriParseError")
    /\ inv = 1
    /\ fs = {HomePath, Join(HomePath, ReposName)}

\* C20 as stated: of two invocations of the same URI at once, at most one
\* starts a clone subprocess.
C20_AsStated ==
    \A p, q \in Procs :
        (p # q /\ pc[p] # "idle" /\ pc[q] # "idle" /\ args[p].uri = args[q].uri)
            => ~(git[p].state # "none" /\ git[q].state # "none")

====
